---- MODULE Spec2Model ----
(***************************************************************************)
(* Resource scanners of azqr: the per-resource-group Scan of the Cognitive *)
(* Services, Redis, MySQL Flexible and Data Explorer scanners, and the     *)
(* rule catalogs of the SignalR and CosmosDB scanners.                     *)
(*                                                                         *)
(* Go values are modelled as follows.                                      *)
(*   string      a sequence of symbols (a symbol is a short TLA+ string)   *)
(*   *T          <<>> for nil, <<v>> for a pointer to v                    *)
(*   []T         a sequence (a nil slice is the empty sequence)            *)
(*   map[K]V     a function; `_, ok := m[k]` is k \in DOMAIN m             *)
(*   panic       an outcome with panic = TRUE                              *)
(***************************************************************************)
EXTENDS Integers, Sequences, FiniteSets, TLC

VARIABLES
    target,       \* the resource a catalog is evaluated against
    listing,      \* identifiers the diagnostics listing reported, as listed
    scanContext,  \* the Scan Context built from the listing
    applied,      \* SpecEval: the catalog whose evaluators were applied
    outs,         \* SpecEval: rule key -> what its evaluator did
    engine,       \* the Rule Engine's EvaluateRules call in progress
    backing,      \* lister (scanner, resource group) -> the pages it serves
    absent,       \* the field one listed item lacks, or "none"
    wiring,       \* the catalog the scanners' GetRules returns
    config,       \* scanner -> its ScannerConfig
    frames,       \* task -> its Scan call
    remembered,   \* what one completed Scan call returned
    run           \* the Orchestrator's RunScan: task states and collections

vars == <<target, listing, scanContext, applied, outs, engine, backing,
          absent, wiring, config, frames, remembered, run>>

(***************************************************************************)
(* Bounds of the model.                                                    *)
(***************************************************************************)
MaxLocations == 2
MaxTags == 1
MaxPE == 1
MaxListing == 1
MaxPages == 2
MaxPageLen == 3
MaxWorkers == 2

(***************************************************************************)
(* Pointers and strings.                                                   *)
(***************************************************************************)
Nil == <<>>
Some(v) == <<v>>
Deref(p) == p[1]

EmptyStr == <<>>

\* strings.ToLower on one symbol of the model's alphabet
LowerSym(c) ==
    CASE c = "S" -> "s"
      [] c = "U" -> "u"
      [] c = "B" -> "b"
      [] c = "K" -> "k"
      [] c = "V" -> "v"
      [] OTHER -> c

ToLower(s) == [i \in 1..Len(s) |-> LowerSym(s[i])]

HasPrefix(s, prefix) ==
    /\ Len(s) >= Len(prefix)
    /\ SubSeq(s, 1, Len(prefix)) = prefix

Contains(s, substr) ==
    \E i \in 0..(Len(s) - Len(substr)) :
        SubSeq(s, i + 1, i + Len(substr)) = substr

BoundedSeq(S, n) == UNION {[1..m -> S] : m \in 0..n}

(***************************************************************************)
(* Outcome of calling a rule's Eval: (bool, string), or a panic.           *)
(***************************************************************************)
Out(t, d) == [panic |-> FALSE, triggered |-> t, detail |-> d]
PanicOut == [panic |-> TRUE, triggered |-> FALSE, detail |-> EmptyStr]

(***************************************************************************)
(* Accessors shared by the evaluators.                                     *)
(***************************************************************************)
\* `_, ok := scanContext.DiagnosticsSettings[key]`
HasKey(ctx, key) == key \in DOMAIN ctx.DiagnosticsSettings

\* len(c.Tags): a nil map has length 0
LenTags(t) == IF t.Tags = Nil THEN 0 ELSE Len(Deref(t.Tags))

(***************************************************************************)
(* SignalRScanner.GetRules: the evaluators.  Each starts with the type     *)
(* assertion of target to a pointer to armsignalr.ResourceInfo, which      *)
(* panics on any other                                                     *)
(* concrete type, except sigr-003, which never looks at its target.        *)
(***************************************************************************)
IsSigr(t) == t.kind = "sigr"

\* sigr-001 looking the identifier up as written, without strings.ToLower
Sigr001_NoToLower(t, ctx) ==
    IF ~IsSigr(t) THEN PanicOut
    ELSE IF t.ID = Nil THEN PanicOut
    ELSE Out(~HasKey(ctx, Deref(t.ID)), EmptyStr)

Sigr001(t, ctx) ==
    IF ~IsSigr(t) THEN PanicOut
    ELSE IF t.ID = Nil THEN PanicOut
    ELSE Out(~HasKey(ctx, ToLower(Deref(t.ID))), EmptyStr)

Sigr002(t, ctx) ==
    IF ~IsSigr(t) THEN PanicOut
    ELSE IF t.SKU = Nil THEN PanicOut
    ELSE IF Deref(t.SKU).Name = Nil THEN PanicOut
    ELSE LET sku == Deref(Deref(t.SKU).Name)
             zones == Contains(sku, <<"Premium">>)
         IN  Out(~zones, EmptyStr)

Sigr003(t, ctx) == Out(FALSE, <<"99.9%">>)

\* sigr-004 with a checked type assertion that falls back to "no findings"
Sigr004_CheckedAssert(t, ctx) ==
    IF ~IsSigr(t) THEN Out(FALSE, EmptyStr)
    ELSE IF t.Properties = Nil THEN PanicOut
    ELSE LET pe == Len(Deref(t.Properties).PrivateEndpointConnections) > 0
         IN  Out(~pe, EmptyStr)

Sigr004(t, ctx) ==
    IF ~IsSigr(t) THEN PanicOut
    ELSE IF t.Properties = Nil THEN PanicOut
    ELSE LET pe == Len(Deref(t.Properties).PrivateEndpointConnections) > 0
         IN  Out(~pe, EmptyStr)

Sigr005(t, ctx) ==
    IF ~IsSigr(t) THEN PanicOut
    ELSE IF t.SKU = Nil THEN PanicOut
    ELSE IF Deref(t.SKU).Name = Nil THEN PanicOut
    ELSE Out(FALSE, Deref(Deref(t.SKU).Name))

Sigr006(t, ctx) ==
    IF ~IsSigr(t) THEN PanicOut
    ELSE IF t.Name = Nil THEN PanicOut
    ELSE LET caf == HasPrefix(Deref(t.Name), <<"sigr">>)
         IN  Out(~caf, EmptyStr)

\* sigr-007 with the comparison inverted
Sigr007_Inverted(t, ctx) ==
    IF ~IsSigr(t) THEN PanicOut
    ELSE Out(LenTags(t) # 0, EmptyStr)

Sigr007(t, ctx) ==
    IF ~IsSigr(t) THEN PanicOut
    ELSE Out(LenTags(t) = 0, EmptyStr)

\* the catalog with the rule under key sigr-004 carrying the Id sigr-003
SigrRules_KeyIdMismatch ==
    [k \in {"sigr-001", "sigr-002", "sigr-003", "sigr-004",
            "sigr-005", "sigr-006", "sigr-007"} |->
        [Id |-> IF k = "sigr-004" THEN "sigr-003" ELSE k, Eval |-> k]]

\* The map literal GetRules returns: key -> rule (Id, and its Eval closure).
SigrRules ==
    [k \in {"sigr-001", "sigr-002", "sigr-003", "sigr-004",
            "sigr-005", "sigr-006", "sigr-007"} |-> [Id |-> k, Eval |-> k]]

(***************************************************************************)
(* CosmosDBScanner.GetRules: the evaluators.                               *)
(***************************************************************************)
IsCosmos(t) == t.kind = "cosmos"

Cosmos001(t, ctx) ==
    IF ~IsCosmos(t) THEN PanicOut
    ELSE IF t.ID = Nil THEN PanicOut
    ELSE Out(~HasKey(ctx, ToLower(Deref(t.ID))), EmptyStr)

\* cosmos-002's loop over i.Properties.Locations, from position i on
RECURSIVE Cosmos002Loop(_, _, _)
Cosmos002Loop(locs, i, st) ==
    IF i > Len(locs) THEN st
    ELSE IF locs[i].IsZoneRedundant = Nil THEN [st EXCEPT !.panic = TRUE]
    ELSE IF Deref(locs[i].IsZoneRedundant)
         THEN Cosmos002Loop(locs, i + 1,
                  [st EXCEPT !.numberOfLocations = @ + 1,
                             !.availabilityZones = TRUE])
         ELSE Cosmos002Loop(locs, i + 1,
                  [st EXCEPT !.numberOfLocations = @ + 1,
                             !.availabilityZonesNotEnabledInALocation = TRUE])

Cosmos002(t, ctx) ==
    IF ~IsCosmos(t) THEN PanicOut
    ELSE IF t.Properties = Nil THEN PanicOut
    ELSE LET st == Cosmos002Loop(Deref(t.Properties).Locations, 1,
                       [panic |-> FALSE,
                        availabilityZones |-> FALSE,
                        availabilityZonesNotEnabledInALocation |-> FALSE,
                        numberOfLocations |-> 0])
             zones == /\ st.availabilityZones
                      /\ st.numberOfLocations >= 2
                      /\ ~st.availabilityZonesNotEnabledInALocation
         IN  IF st.panic THEN PanicOut ELSE Out(~zones, EmptyStr)

\* cosmos-003's loop over i.Properties.Locations, from position i on
RECURSIVE Cosmos003Loop(_, _, _)
Cosmos003Loop(locs, i, st) ==
    IF i > Len(locs) THEN st
    ELSE IF locs[i].IsZoneRedundant = Nil THEN [st EXCEPT !.panic = TRUE]
    ELSE IF Deref(locs[i].IsZoneRedundant)
         THEN Cosmos003Loop(locs, i + 1,
                  [st EXCEPT !.numberOfLocations = @ + 1,
                             !.availabilityZones = TRUE,
                             !.sla = <<"99.995%">>])
         ELSE Cosmos003Loop(locs, i + 1,
                  [st EXCEPT !.numberOfLocations = @ + 1,
                             !.availabilityZonesNotEnabledInALocation = TRUE])

\* cosmos-003 without the test on the number of locations
Cosmos003_IgnoresCount(t, ctx) ==
    IF ~IsCosmos(t) THEN PanicOut
    ELSE IF t.Properties = Nil THEN PanicOut
    ELSE LET st == Cosmos003Loop(Deref(t.Properties).Locations, 1,
                       [panic |-> FALSE,
                        sla |-> <<"99.99%">>,
                        availabilityZones |-> FALSE,
                        availabilityZonesNotEnabledInALocation |-> FALSE,
                        numberOfLocations |-> 0])
             sla == IF /\ st.availabilityZones
                       /\ ~st.availabilityZonesNotEnabledInALocation
                    THEN <<"99.999%">>
                    ELSE st.sla
         IN  IF st.panic THEN PanicOut ELSE Out(FALSE, sla)

Cosmos003(t, ctx) ==
    IF ~IsCosmos(t) THEN PanicOut
    ELSE IF t.Properties = Nil THEN PanicOut
    ELSE LET st == Cosmos003Loop(Deref(t.Properties).Locations, 1,
                       [panic |-> FALSE,
                        sla |-> <<"99.99%">>,
                        availabilityZones |-> FALSE,
                        availabilityZonesNotEnabledInALocation |-> FALSE,
                        numberOfLocations |-> 0])
             sla == IF /\ st.availabilityZones
                       /\ st.numberOfLocations >= 2
                       /\ ~st.availabilityZonesNotEnabledInALocation
                    THEN <<"99.999%">>
                    ELSE st.sla
         IN  IF st.panic THEN PanicOut ELSE Out(FALSE, sla)

Cosmos004(t, ctx) ==
    IF ~IsCosmos(t) THEN PanicOut
    ELSE IF t.Properties = Nil THEN PanicOut
    ELSE LET pe == Len(Deref(t.Properties).PrivateEndpointConnections) > 0
         IN  Out(~pe, EmptyStr)

Cosmos005(t, ctx) ==
    IF ~IsCosmos(t) THEN PanicOut
    ELSE IF t.Properties = Nil THEN PanicOut
    ELSE IF Deref(t.Properties).DatabaseAccountOfferType = Nil THEN PanicOut
    ELSE Out(FALSE, Deref(Deref(t.Properties).DatabaseAccountOfferType))

Cosmos006(t, ctx) ==
    IF ~IsCosmos(t) THEN PanicOut
    ELSE IF t.Name = Nil THEN PanicOut
    ELSE LET caf == HasPrefix(Deref(t.Name), <<"cosmos">>)
         IN  Out(~caf, EmptyStr)

Cosmos007(t, ctx) ==
    IF ~IsCosmos(t) THEN PanicOut
    ELSE Out(LenTags(t) = 0, EmptyStr)

Cosmos008(t, ctx) ==
    IF ~IsCosmos(t) THEN PanicOut
    ELSE IF t.Properties = Nil THEN PanicOut
    ELSE LET p == Deref(t.Properties)
             localAuth == /\ p.DisableLocalAuth # Nil
                          /\ Deref(p.DisableLocalAuth)
         IN  Out(~localAuth, EmptyStr)

Cosmos009(t, ctx) ==
    IF ~IsCosmos(t) THEN PanicOut
    ELSE IF t.Properties = Nil THEN PanicOut
    ELSE LET p == Deref(t.Properties)
             disabled == /\ p.DisableKeyBasedMetadataWriteAccess # Nil
                         /\ Deref(p.DisableKeyBasedMetadataWriteAccess)
         IN  Out(~disabled, EmptyStr)

CosmosRules ==
    [k \in {"cosmos-001", "cosmos-002", "cosmos-003", "cosmos-004",
            "cosmos-005", "cosmos-006", "cosmos-007", "cosmos-008",
            "cosmos-009"} |-> [Id |-> k, Eval |-> k]]

(***************************************************************************)
(* The catalogs of the Cognitive, Redis, MySQL Flexible and Data Explorer  *)
(* scanners are not part of the sources at hand.  They are stood for by    *)
(* the one-rule catalog `has-tag` and by the empty catalog.                *)
(***************************************************************************)
HasTag(t, ctx) == Out(LenTags(t) = 0, EmptyStr)

HasTagRules == [k \in {"has-tag"} |-> [Id |-> k, Eval |-> k]]

EmptyRules == [k \in {} |-> [Id |-> k, Eval |-> k]]

\* rule.Eval(target, scanContext): the call of a rule's closure
CallEval(rule, t, ctx) ==
    CASE rule.Eval = "has-tag" -> HasTag(t, ctx)
      [] rule.Eval = "sigr-001" -> Sigr001(t, ctx)
      [] rule.Eval = "sigr-002" -> Sigr002(t, ctx)
      [] rule.Eval = "sigr-003" -> Sigr003(t, ctx)
      [] rule.Eval = "sigr-004" -> Sigr004(t, ctx)
      [] rule.Eval = "sigr-005" -> Sigr005(t, ctx)
      [] rule.Eval = "sigr-006" -> Sigr006(t, ctx)
      [] rule.Eval = "sigr-007" -> Sigr007(t, ctx)
      [] rule.Eval = "cosmos-001" -> Cosmos001(t, ctx)
      [] rule.Eval = "cosmos-002" -> Cosmos002(t, ctx)
      [] rule.Eval = "cosmos-003" -> Cosmos003(t, ctx)
      [] rule.Eval = "cosmos-004" -> Cosmos004(t, ctx)
      [] rule.Eval = "cosmos-005" -> Cosmos005(t, ctx)
      [] rule.Eval = "cosmos-006" -> Cosmos006(t, ctx)
      [] rule.Eval = "cosmos-007" -> Cosmos007(t, ctx)
      [] rule.Eval = "cosmos-008" -> Cosmos008(t, ctx)
      [] rule.Eval = "cosmos-009" -> Cosmos009(t, ctx)

(***************************************************************************)
(* The Scan Context.  Its builder lists the identifiers that have          *)
(* diagnostic settings and keys the index by the lower-cased identifier.   *)
(***************************************************************************)
Build(ids) ==
    [DiagnosticsSettings |-> [k \in {ToLower(r) : r \in ids} |-> TRUE]]

(***************************************************************************)
(* Inputs: resources of each concrete type, any optional field absent.     *)
(***************************************************************************)
RawIds == {<<"s", "u", "b">>, <<"S", "u", "B">>, <<"K", "V">>}
OptIds == {Nil} \cup {Some(r) : r \in RawIds}
Listings == {S \in SUBSET RawIds : Cardinality(S) <= MaxListing}

OptBool == {Nil, Some(TRUE), Some(FALSE)}
TagMaps == {Nil} \cup {Some([i \in 1..n |-> <<"v">>]) : n \in 0..MaxTags}
Connections == {[i \in 1..n |-> <<"pe">>] : n \in 0..MaxPE}

SigrResources ==
    [kind : {"sigr"},
     ID : OptIds,
     Name : {Nil, Some(<<"sigr", "-hub">>), Some(<<"hub">>)},
     SKU : {Nil} \cup {Some([Name |-> n]) :
                n \in {Nil, Some(<<"Premium", "_P1">>), Some(<<"Standard", "_S1">>)}},
     Properties : {Nil} \cup {Some([PrivateEndpointConnections |-> c]) :
                       c \in Connections},
     Tags : TagMaps]

CosmosResources ==
    [kind : {"cosmos"},
     ID : OptIds,
     Name : {Nil, Some(<<"cosmos", "-db">>), Some(<<"db">>)},
     Properties : {Nil} \cup {Some(p) : p \in
         [Locations : BoundedSeq([IsZoneRedundant : OptBool], MaxLocations),
          PrivateEndpointConnections : Connections,
          DatabaseAccountOfferType : {Nil, Some(<<"Standard">>)},
          DisableLocalAuth : OptBool,
          DisableKeyBasedMetadataWriteAccess : OptBool]},
     Tags : TagMaps]

\* a resource of a concrete type neither catalog expects
CogResources ==
    [kind : {"cog"},
     ID : OptIds,
     Name : {Nil, Some(<<"cog", "-acct">>)},
     Tags : TagMaps]

Resources == SigrResources \cup CosmosResources \cup CogResources

GetRules(name) ==
    CASE name = "sigr" -> SigrRules
      [] name = "cosmos" -> CosmosRules
      [] name = "has-tag" -> HasTagRules
      [] name = "empty" -> EmptyRules

CatalogNames == {"sigr", "cosmos"}

\* the parts of the state a specification does not use
scanVars == <<backing, absent, wiring, config, frames, remembered, run>>
ruleVars == <<target, listing, scanContext, applied, outs, engine>>
scanVarsButRun == <<backing, absent, wiring, config, frames, remembered>>

EngineOff == engine = [pc |-> "off"]

ScanOff ==
    /\ backing = <<>>
    /\ absent = "none"
    /\ wiring = "none"
    /\ config = <<>>
    /\ frames = <<>>
    /\ remembered = Nil
    /\ run = [pc |-> "off"]

EvalOff == applied = "off" /\ outs = <<>>

(***************************************************************************)
(* SpecEval: every evaluator of a catalog applied to one resource.         *)
(***************************************************************************)
InitEval ==
    /\ target \in Resources
    /\ listing \in Listings
    /\ scanContext = Build(listing)
    /\ applied = "none"
    /\ outs = <<>>
    /\ ScanOff
    /\ EngineOff

ApplyEvals(name) ==
    /\ applied = "none"
    /\ applied' = name
    /\ outs' = [k \in DOMAIN GetRules(name) |->
                  CallEval(GetRules(name)[k], target, scanContext)]
    /\ UNCHANGED <<target, listing, scanContext, engine, scanVars>>

NextEval == \E name \in CatalogNames : ApplyEvals(name)

SpecEval == InitEval /\ [][NextEval]_vars

(***************************************************************************)
(* Properties of the evaluators (SpecEval).                                *)
(***************************************************************************)
\* the concrete type the evaluators of a catalog assert
Expects(name) == name

Matched == applied \in CatalogNames /\ target.kind = Expects(applied)
Mismatched == applied \in CatalogNames /\ target.kind # Expects(applied)

\* case-insensitive equality of two identifiers
EqualFold(a, b) ==
    /\ Len(a) = Len(b)
    /\ \A i \in 1..Len(a) : LowerSym(a[i]) = LowerSym(b[i])

DiagRule(name) == IF name = "sigr" THEN "sigr-001" ELSE "cosmos-001"
TagsRule(name) == IF name = "sigr" THEN "sigr-007" ELSE "cosmos-007"

\* C3: the diagnostics rule (sigr-001, cosmos-001) of a resource that has an
\* identifier is not triggered when some listed identifier equals it up to
\* letter case, and is triggered, with detail "", when none does; it never
\* panics.
C3_DiagnosticsCrossReference ==
    (Matched /\ target.ID # Nil) =>
        LET o == outs[DiagRule(applied)]
            appears == \E r \in listing : EqualFold(r, Deref(target.ID))
        IN  /\ ~o.panic
            /\ o.detail = EmptyStr
            /\ o.triggered = ~appears

\* C3 witness: identifier "SuB" on the resource, "sub" in the listing.
C3_Witness ==
    /\ applied = "sigr"
    /\ target.kind = "sigr"
    /\ target.ID = Some(<<"S", "u", "B">>)
    /\ listing = {<<"s", "u", "b">>}
    /\ outs["sigr-001"] = Out(FALSE, EmptyStr)

\* C8: no evaluator of the SignalR or CosmosDB catalog panics on a resource
\* of the expected type, whichever optional fields are absent.
C8_EvaluatorsNilSafe ==
    Matched => \A k \in DOMAIN outs : ~outs[k].panic

\* C9: the tags rule (sigr-007, cosmos-007) is triggered exactly when the
\* resource has no tag (a nil or an empty map), its detail is always "",
\* whatever the Scan Context holds.
C9_TagsRule ==
    Matched =>
        LET noTags == target.Tags = Nil \/ Deref(target.Tags) = <<>>
        IN  outs[TagsRule(applied)] = Out(noTags, EmptyStr)

\* C9 witness: a CosmosDB account with one tag, rule not triggered.
C9_Witness ==
    /\ applied = "cosmos"
    /\ target.kind = "cosmos"
    /\ target.Tags = Some(<< <<"v">> >>)
    /\ listing # {}
    /\ outs["cosmos-007"] = Out(FALSE, EmptyStr)

\* the locations of a CosmosDB account whose zone flags are all present
ZoneFlags(t) ==
    LET locs == Deref(t.Properties).Locations
    IN  [i \in 1..Len(locs) |-> Deref(locs[i].IsZoneRedundant)]

FlagsPresent(t) ==
    /\ t.Properties # Nil
    /\ \A i \in 1..Len(Deref(t.Properties).Locations) :
           Deref(t.Properties).Locations[i].IsZoneRedundant # Nil

\* C12: for every list of locations of a CosmosDB account, cosmos-002 is
\* not triggered exactly when there are at least two locations and every
\* one is zone redundant, which is exactly when cosmos-003 reports
\* "99.999%"; otherwise cosmos-002 is triggered and cosmos-003 reports
\* "99.995%" when some location is zone redundant and "99.99%" when none
\* is (an account without locations included); cosmos-003 is never
\* triggered, and the detail of cosmos-002 is "".
C12_ZoneRulesAgree ==
    (applied = "cosmos" /\ target.kind = "cosmos" /\ FlagsPresent(target)) =>
        LET flags == ZoneFlags(target)
            all == \A i \in 1..Len(flags) : flags[i]
            some == \E i \in 1..Len(flags) : flags[i]
            zones == Len(flags) >= 2 /\ all
            sla == IF zones THEN <<"99.999%">>
                   ELSE IF some THEN <<"99.995%">>
                   ELSE <<"99.99%">>
        IN  /\ outs["cosmos-002"] = Out(~zones, EmptyStr)
            /\ outs["cosmos-003"] = Out(FALSE, sla)
            /\ (~outs["cosmos-002"].triggered) <=>
                   (outs["cosmos-003"].detail = <<"99.999%">>)

\* C12 witness: two locations, both zone redundant; cosmos-002 is not
\* triggered and cosmos-003 reports "99.999%".
C12_Witness ==
    /\ applied = "cosmos"
    /\ target.kind = "cosmos"
    /\ FlagsPresent(target)
    /\ ZoneFlags(target) = <<TRUE, TRUE>>
    /\ outs["cosmos-002"] = Out(FALSE, EmptyStr)
    /\ outs["cosmos-003"] = Out(FALSE, <<"99.999%">>)

(***************************************************************************)
(* The Rule Engine.  EvaluateRules calls the Eval of every rule of the     *)
(* catalog once and stores what it returns under the rule's key.  The      *)
(* catalog is a Go map, so the rules are visited in any order; a panic of  *)
(* an evaluator unwinds the call, and no map is returned.                  *)
(***************************************************************************)
EvaluateRules(name, t, ctx) ==
    LET rules == GetRules(name)
        o == [k \in DOMAIN rules |-> CallEval(rules[k], t, ctx)]
    IN  IF \E k \in DOMAIN rules : o[k].panic
        THEN [panic |-> TRUE, rr |-> <<>>]
        ELSE [panic |-> FALSE, rr |-> o]

SigrOK ==
    [kind |-> "sigr",
     ID |-> Some(<<"S", "u", "B">>),
     Name |-> Some(<<"sigr", "-hub">>),
     SKU |-> Some([Name |-> Some(<<"Premium", "_P1">>)]),
     Properties |-> Some([PrivateEndpointConnections |-> <<>>]),
     Tags |-> Some(<<>>)]

SigrNoSKU == [SigrOK EXCEPT !.SKU = Nil, !.Tags = Nil]

CosmosOK ==
    [kind |-> "cosmos",
     ID |-> Some(<<"K", "V">>),
     Name |-> Some(<<"db">>),
     Properties |-> Some(
         [Locations |-> <<[IsZoneRedundant |-> Some(TRUE)],
                          [IsZoneRedundant |-> Some(FALSE)]>>,
          PrivateEndpointConnections |-> <<>>,
          DatabaseAccountOfferType |-> Some(<<"Standard">>),
          DisableLocalAuth |-> Nil,
          DisableKeyBasedMetadataWriteAccess |-> Some(TRUE)]),
     Tags |-> Some(<< <<"v">> >>)]

CogOK ==
    [kind |-> "cog",
     ID |-> Some(<<"s", "u", "b">>),
     Name |-> Some(<<"cog", "-acct">>),
     Tags |-> Nil]

EngineTargets == {SigrOK, SigrNoSKU, CosmosOK, CogOK}
EngineCatalogs == {"empty", "has-tag", "sigr", "cosmos"}

InitEngine ==
    /\ target \in EngineTargets
    /\ listing \in Listings
    /\ scanContext = Build(listing)
    /\ \E name \in EngineCatalogs :
           engine = [pc |-> "run", rules |-> name, rr |-> <<>>, ret |-> Nil,
                     calls |-> [k \in DOMAIN GetRules(name) |-> 0]]
    /\ EvalOff
    /\ ScanOff

\* one turn of the loop over the catalog: rule k is visited
EngineVisit(k) ==
    /\ engine.pc = "run"
    /\ k \in DOMAIN GetRules(engine.rules) \ DOMAIN engine.rr
    /\ LET o == CallEval(GetRules(engine.rules)[k], target, scanContext)
       IN  engine' = IF o.panic
                     THEN [engine EXCEPT !.pc = "panic", !.calls[k] = @ + 1]
                     ELSE [engine EXCEPT !.rr = (k :> o) @@ @,
                                         !.calls[k] = @ + 1]
    /\ UNCHANGED <<target, listing, scanContext, applied, outs, scanVars>>

EngineReturn ==
    /\ engine.pc = "run"
    /\ DOMAIN engine.rr = DOMAIN GetRules(engine.rules)
    /\ engine' = [engine EXCEPT !.pc = "done", !.ret = Some(engine.rr)]
    /\ UNCHANGED <<target, listing, scanContext, applied, outs, scanVars>>

NextEngine ==
    \/ \E k \in DOMAIN SigrRules \cup DOMAIN CosmosRules \cup DOMAIN HasTagRules :
           EngineVisit(k)
    \/ EngineReturn

SpecEngine == InitEngine /\ [][NextEngine]_vars

\* the loop, run to its end, returns what EvaluateRules is taken to return
EngineAgrees ==
    /\ engine.pc = "done" =>
           EvaluateRules(engine.rules, target, scanContext)
               = [panic |-> FALSE, rr |-> Deref(engine.ret)]
    /\ engine.pc = "panic" =>
           EvaluateRules(engine.rules, target, scanContext).panic

(***************************************************************************)
(* The scanners.  CognitiveScanner, RedisScanner, MySQLFlexibleScanner and *)
(* DataExplorerScanner share one Scan and one list function, which differ  *)
(* in the client and the resource type only.                               *)
(***************************************************************************)
Scanners == {"cog", "redis", "mysqlf", "dec"}
ResourceGroups == {"rg1", "rg2"}
Listers == Scanners \X ResourceGroups
Errors == {"throttled", "forbidden"}

TypeName(c) ==
    CASE c = "cog" -> <<"Microsoft.CognitiveServices/accounts">>
      [] c = "redis" -> <<"Microsoft.Cache/Redis">>
      [] c = "mysqlf" -> <<"Microsoft.DBforMySQL/flexibleServers">>
      [] c = "dec" -> <<"Microsoft.Kusto/clusters">>

\* the field `absent` is missing from the second item of the first page
Lacks(p, i, f) == p = 1 /\ i = 2 /\ absent = f

\* the i-th instance on page p of the listing of resource group rg
Item(c, rg, p, i) ==
    [kind |-> c,
     ID |-> Some(<<"s", "u", "b">>),
     Name |-> IF Lacks(p, i, "Name") THEN Nil
              ELSE Some(<<c, rg, ToString(p), ToString(i)>>),
     Type |-> IF Lacks(p, i, "Type") THEN Nil ELSE Some(TypeName(c)),
     Location |-> IF Lacks(p, i, "Location") THEN Nil
                  ELSE Some(IF i % 2 = 1 THEN <<"westeurope">> ELSE <<"eastus">>),
     Tags |-> Some([j \in 1..(i % 2) |-> <<"v">>])]

\* resp.Value of page p
PageItems(c, rg, p, n) == [i \in 1..n |-> Item(c, rg, p, i)]

\* what pager.NextPage answers: an error, or a page of n instances
Pages ==
    {[err |-> Some(e), n |-> 0] : e \in Errors}
        \cup {[err |-> Nil, n |-> n] : n \in 0..MaxPageLen}

PageSeqs == UNION {[1..m -> Pages] : m \in 1..MaxPages}

IdleFrame ==
    [pc |-> "idle", scanner |-> "none", rg |-> "none", pos |-> 0,
     items |-> <<>>, ret |-> Nil, requests |-> 0, evals |-> 0, later |-> FALSE]

\* the for loop of Scan taking ResourceGroup and ServiceName from the first
\* listed instance instead of the argument and the instance at hand
RECURSIVE ScanLoop_FirstItem(_, _, _, _, _)
ScanLoop_FirstItem(c, rg, items, i, acc) ==
    IF i > Len(items) THEN acc
    ELSE LET item == items[i]
             rr == EvaluateRules(wiring, item, scanContext)
             called == [acc EXCEPT !.evals = @ + 1]
         IN  IF rr.panic THEN [called EXCEPT !.panic = TRUE]
             ELSE IF item.Name = Nil \/ item.Type = Nil \/ item.Location = Nil
             THEN [called EXCEPT !.panic = TRUE]
             ELSE ScanLoop_FirstItem(c, rg, items, i + 1,
                      [called EXCEPT !.results = Append(@,
                          [SubscriptionID |-> config[c].SubscriptionID,
                           SubscriptionName |-> config[c].SubscriptionName,
                           ResourceGroup |-> rg,
                           ServiceName |-> Deref(items[1].Name),
                           Type |-> Deref(item.Type),
                           Location |-> Deref(item.Location),
                           Rules |-> rr.rr])])

\* the for loop of Scan over the listed instances, from position i on
RECURSIVE ScanLoop(_, _, _, _, _)
ScanLoop(c, rg, items, i, acc) ==
    IF i > Len(items) THEN acc
    ELSE LET item == items[i]
             rr == EvaluateRules(wiring, item, scanContext)
             called == [acc EXCEPT !.evals = @ + 1]
         IN  IF rr.panic THEN [called EXCEPT !.panic = TRUE]
             ELSE IF item.Name = Nil \/ item.Type = Nil \/ item.Location = Nil
             THEN [called EXCEPT !.panic = TRUE]
             ELSE ScanLoop(c, rg, items, i + 1,
                      [called EXCEPT !.results = Append(@,
                          [SubscriptionID |-> config[c].SubscriptionID,
                           SubscriptionName |-> config[c].SubscriptionName,
                           ResourceGroup |-> rg,
                           ServiceName |-> Deref(item.Name),
                           Type |-> Deref(item.Type),
                           Location |-> Deref(item.Location),
                           Rules |-> rr.rr])])

\* Scan keeping the pager of the task's previous call
ScanCall_ReusesPager(t, c, rg) ==
    /\ frames[t].pc \in {"idle", "done"}
    /\ frames' = [frames EXCEPT ![t] =
           [IdleFrame EXCEPT !.pc = "list", !.scanner = c, !.rg = rg,
                             !.pos = frames[t].pos,
                             !.later = (remembered # Nil)]]
    /\ UNCHANGED <<backing, absent, wiring, config, remembered, ruleVars>>

\* Scan is called: the list function creates a new pager
ScanCall(t, c, rg) ==
    /\ frames[t].pc \in {"idle", "done"}
    /\ frames' = [frames EXCEPT ![t] =
           [IdleFrame EXCEPT !.pc = "list", !.scanner = c, !.rg = rg,
                             !.later = (remembered # Nil)]]
    /\ UNCHANGED <<backing, absent, wiring, config, remembered, ruleVars>>

\* list skipping a page that fails and going on to the next one
NextPage_SkipsFailedPage(t) ==
    LET f == frames[t]
        pages == backing[<<f.scanner, f.rg>>]
    IN  /\ f.pc = "list"
        /\ f.pos < Len(pages)
        /\ LET page == pages[f.pos + 1]
           IN  frames' = [frames EXCEPT ![t] =
                   [f EXCEPT !.pos = @ + 1,
                             !.requests = @ + 1,
                             !.items = @ \o PageItems(f.scanner, f.rg,
                                                      f.pos + 1, page.n)]]
        /\ UNCHANGED <<backing, absent, wiring, config, remembered, ruleVars>>

\* list swallowing the error of a page: it stops paging and returns what it
\* has, with no error
NextPage_SwallowsError(t) ==
    LET f == frames[t]
        pages == backing[<<f.scanner, f.rg>>]
    IN  /\ f.pc = "list"
        /\ f.pos < Len(pages)
        /\ LET page == pages[f.pos + 1]
           IN  frames' = [frames EXCEPT ![t] =
                   IF page.err # Nil
                   THEN [f EXCEPT !.pos = Len(pages), !.requests = @ + 1]
                   ELSE [f EXCEPT !.pos = @ + 1,
                                  !.requests = @ + 1,
                                  !.items = @ \o PageItems(f.scanner, f.rg,
                                                           f.pos + 1, page.n)]]
        /\ UNCHANGED <<backing, absent, wiring, config, remembered, ruleVars>>

\* list appending the page to a slice kept in the scanner, which every call
\* in flight on that scanner shares, instead of its local slice
NextPage_SharedBuffer(t) ==
    LET f == frames[t]
        pages == backing[<<f.scanner, f.rg>>]
    IN  /\ f.pc = "list"
        /\ f.pos < Len(pages)
        /\ LET page == pages[f.pos + 1]
               more == PageItems(f.scanner, f.rg, f.pos + 1, page.n)
           IN  frames' = [u \in DOMAIN frames |->
                   IF u = t
                   THEN IF page.err # Nil
                        THEN [f EXCEPT !.pc = "done",
                                       !.requests = @ + 1,
                                       !.ret = Some([results |-> Nil,
                                                     err |-> page.err])]
                        ELSE [f EXCEPT !.pos = @ + 1,
                                       !.requests = @ + 1,
                                       !.items = @ \o more]
                   ELSE IF /\ page.err = Nil
                           /\ frames[u].pc = "list"
                           /\ frames[u].scanner = f.scanner
                        THEN [frames[u] EXCEPT !.items = @ \o more]
                        ELSE frames[u]]
        /\ UNCHANGED <<backing, absent, wiring, config, remembered, ruleVars>>

\* pager.More() was true, pager.NextPage: an error ends list and Scan with
\* (nil, err); a page is appended to the instances listed so far
NextPage(t) ==
    LET f == frames[t]
        pages == backing[<<f.scanner, f.rg>>]
    IN  /\ f.pc = "list"
        /\ f.pos < Len(pages)
        /\ LET page == pages[f.pos + 1]
           IN  frames' = [frames EXCEPT ![t] =
                   IF page.err # Nil
                   THEN [f EXCEPT !.pc = "done",
                                  !.requests = @ + 1,
                                  !.ret = Some([results |-> Nil, err |-> page.err])]
                   ELSE [f EXCEPT !.pos = @ + 1,
                                  !.requests = @ + 1,
                                  !.items = @ \o PageItems(f.scanner, f.rg,
                                                           f.pos + 1, page.n)]]
        /\ UNCHANGED <<backing, absent, wiring, config, remembered, ruleVars>>

\* pager.More() was false: the rules are evaluated on every instance and
\* Scan returns (results, nil), or panics on the way
ScanEvaluate(t) ==
    LET f == frames[t]
    IN  /\ f.pc = "list"
        /\ f.pos >= Len(backing[<<f.scanner, f.rg>>])
        /\ LET end == ScanLoop(f.scanner, f.rg, f.items, 1,
                          [panic |-> FALSE, results |-> <<>>, evals |-> 0])
           IN  frames' = [frames EXCEPT ![t] =
                   IF end.panic
                   THEN [f EXCEPT !.pc = "panic", !.evals = end.evals]
                   ELSE [f EXCEPT !.pc = "done", !.evals = end.evals,
                                  !.ret = Some([results |-> Some(end.results),
                                                err |-> Nil])]]
        /\ UNCHANGED <<backing, absent, wiring, config, remembered, ruleVars>>

\* an observer keeps what one completed call returned
Remember(t) ==
    /\ frames[t].pc = "done"
    /\ remembered = Nil
    /\ remembered' = Some([scanner |-> frames[t].scanner, rg |-> frames[t].rg,
                           ret |-> Deref(frames[t].ret)])
    /\ UNCHANGED <<backing, absent, wiring, config, frames, ruleVars>>

ScanTasks == {"t1"}
ScanCatalogs == {"empty", "has-tag", "sigr"}
AbsentFields == {"none", "Name", "Type", "Location"}

TheConfig == [SubscriptionID |-> <<"sub-1">>, SubscriptionName |-> <<"Subscription One">>]

InitScan ==
    /\ \E b \in PageSeqs : backing = [l \in Listers |-> b]
    /\ absent \in AbsentFields
    /\ wiring \in ScanCatalogs
    /\ config = [c \in Scanners |-> TheConfig]
    /\ frames = [t \in ScanTasks |-> IdleFrame]
    /\ remembered = Nil
    /\ listing = {<<"S", "u", "B">>}
    /\ scanContext = Build(listing)
    /\ target = CogOK
    /\ run = [pc |-> "off"]
    /\ EvalOff
    /\ EngineOff

NextScan ==
    \/ \E t \in DOMAIN frames, c \in Scanners, rg \in ResourceGroups :
           ScanCall(t, c, rg) /\ UNCHANGED run
    \/ \E t \in DOMAIN frames : NextPage(t) /\ UNCHANGED run
    \/ \E t \in DOMAIN frames : ScanEvaluate(t) /\ UNCHANGED run
    \/ \E t \in DOMAIN frames : Remember(t) /\ UNCHANGED run

SpecScan == InitScan /\ [][NextScan]_vars

\* the evaluators applied to the resources the engine is run on
InitEvalCore ==
    /\ target \in EngineTargets
    /\ listing \in Listings
    /\ scanContext = Build(listing)
    /\ applied = "none"
    /\ outs = <<>>
    /\ ScanOff
    /\ EngineOff

Init == InitEvalCore \/ InitEngine \/ InitScan

Next ==
    \/ \E name \in CatalogNames : ApplyEvals(name)
    \/ \E k \in DOMAIN SigrRules \cup DOMAIN CosmosRules \cup DOMAIN HasTagRules :
           EngineVisit(k)
    \/ EngineReturn
    \/ \E t \in DOMAIN frames, c \in Scanners, rg \in ResourceGroups :
           ScanCall(t, c, rg) /\ UNCHANGED run
    \/ \E t \in DOMAIN frames : NextPage(t) /\ UNCHANGED run
    \/ \E t \in DOMAIN frames : ScanEvaluate(t) /\ UNCHANGED run
    \/ \E t \in DOMAIN frames : Remember(t) /\ UNCHANGED run

Spec == Init /\ [][Next]_vars

(***************************************************************************)
(* The Orchestrator.  RunScan runs one task per (scanner, resource group)  *)
(* pair on a pool of at most `limit` workers.  A task calls Scan and keeps *)
(* what it returns in a buffer of its own: the Results, or a failure entry *)
(* (scanner, resource group, error).  When every task has settled the      *)
(* buffers are merged.  A panic of a task ends the process.                *)
(***************************************************************************)
RunPairs == {<<"cog", "rg1">>, <<"redis", "rg1">>, <<"cog", "rg2">>}

\* the pairs in the order of the merged output: resource group, then scanner
RunOrder == <<<<"cog", "rg1">>, <<"redis", "rg1">>, <<"cog", "rg2">>>>

OkPage(n) == [err |-> Nil, n |-> n]
ErrPage(e) == [err |-> Some(e), n |-> 0]

RunListings ==
    {<<OkPage(2)>>, <<OkPage(1), OkPage(1)>>, <<OkPage(0)>>,
     <<ErrPage("throttled")>>, <<OkPage(2), ErrPage("forbidden")>>}

Crashed == \E p \in DOMAIN frames : frames[p].pc = "panic"

InFlight == {p \in RunPairs : run.status[p] = "running"}

InitRun ==
    /\ backing \in [RunPairs -> RunListings]
    /\ absent \in {"none", "Name"}
    /\ wiring = "has-tag"
    /\ config = [c \in Scanners |-> TheConfig]
    /\ frames = [p \in RunPairs |-> IdleFrame]
    /\ remembered = Nil
    /\ \E limit \in 1..MaxWorkers :
           run = [pc |-> "running",
                  limit |-> limit,
                  status |-> [p \in RunPairs |-> "pending"],
                  results |-> [p \in RunPairs |-> Nil],
                  failures |-> {},
                  merged |-> <<>>]
    /\ listing = {<<"S", "u", "B">>}
    /\ scanContext = Build(listing)
    /\ target = CogOK
    /\ EvalOff
    /\ EngineOff

\* a free worker takes the task of pair p and calls Scan
RunStart(p) ==
    /\ run.pc = "running"
    /\ ~Crashed
    /\ run.status[p] = "pending"
    /\ Cardinality(InFlight) < run.limit
    /\ ScanCall(p, p[1], p[2])
    /\ run' = [run EXCEPT !.status[p] = "running"]

\* a step of the Scan call of a running task
RunStep(p) ==
    /\ run.pc = "running"
    /\ ~Crashed
    /\ run.status[p] = "running"
    /\ (NextPage(p) \/ ScanEvaluate(p))
    /\ UNCHANGED run

\* the Scan call of pair p returned: its Results or its failure is recorded
RunSettle(p) ==
    /\ run.pc = "running"
    /\ ~Crashed
    /\ run.status[p] = "running"
    /\ frames[p].pc = "done"
    /\ LET ret == Deref(frames[p].ret)
       IN  run' = IF ret.err # Nil
                  THEN [run EXCEPT !.status[p] = "settled",
                                   !.failures = @ \cup
                                       {[scanner |-> p[1], rg |-> p[2],
                                         err |-> Deref(ret.err)]}]
                  ELSE [run EXCEPT !.status[p] = "settled",
                                   !.results[p] = ret.results]
    /\ UNCHANGED <<scanVarsButRun, ruleVars>>

RECURSIVE Merge(_, _)
Merge(results, i) ==
    IF i > Len(RunOrder) THEN <<>>
    ELSE (IF results[RunOrder[i]] = Nil THEN <<>>
          ELSE Deref(results[RunOrder[i]])) \o Merge(results, i + 1)

\* every task has settled: RunScan returns the merged Results and failures
RunReturn ==
    /\ run.pc = "running"
    /\ ~Crashed
    /\ \A p \in RunPairs : run.status[p] = "settled"
    /\ run' = [run EXCEPT !.pc = "returned", !.merged = Merge(run.results, 1)]
    /\ UNCHANGED <<scanVarsButRun, ruleVars>>

NextRun ==
    \/ \E p \in RunPairs : RunStart(p)
    \/ \E p \in RunPairs : RunStep(p)
    \/ \E p \in RunPairs : RunSettle(p)
    \/ RunReturn

SpecRun == InitRun /\ [][NextRun]_vars

(***************************************************************************)
(* Properties of Scan and of the Rule Engine (Spec).                       *)
(***************************************************************************)
PagesOf(f) == backing[<<f.scanner, f.rg>>]

HasErr(pages) == \E i \in 1..Len(pages) : pages[i].err # Nil

FirstErr(pages) ==
    CHOOSE i \in 1..Len(pages) :
        /\ pages[i].err # Nil
        /\ \A j \in 1..(i - 1) : pages[j].err = Nil

\* the instances of a listing in listing order: page by page, item by item
RECURSIVE Listed(_, _, _, _)
Listed(c, rg, pages, p) ==
    IF p > Len(pages) THEN <<>>
    ELSE PageItems(c, rg, p, pages[p].n) \o Listed(c, rg, pages, p + 1)

RECURSIVE Total(_, _)
Total(pages, p) ==
    IF p > Len(pages) THEN 0 ELSE pages[p].n + Total(pages, p + 1)

Called(f) == f.pc # "idle"

\* C1: when a page of the listing fails, Scan returns (nil, the error of
\* that page), whatever the pages before it held; no rule is evaluated and
\* no page after the failing one is requested.
C1_ListingFailureAborts ==
    \A t \in DOMAIN frames :
        LET f == frames[t]
        IN  (Called(f) /\ HasErr(PagesOf(f))) =>
                LET e == FirstErr(PagesOf(f))
                IN  /\ f.evals = 0
                    /\ f.requests <= e
                    /\ f.pc # "panic"
                    /\ f.pc = "done" =>
                           /\ f.requests = e
                           /\ Deref(f.ret) = [results |-> Nil,
                                              err |-> PagesOf(f)[e].err]

\* C1 witness: the second page fails after a first page of two instances.
C1_Witness ==
    \E t \in DOMAIN frames :
        LET f == frames[t]
        IN  /\ f.pc = "done"
            /\ f.scanner = "dec"
            /\ Len(PagesOf(f)) = 2
            /\ PagesOf(f)[1] = [err |-> Nil, n |-> 2]
            /\ PagesOf(f)[2].err = Some("throttled")
            /\ Deref(f.ret) = [results |-> Nil, err |-> Some("throttled")]

\* C2: when every page succeeds, a Scan that returns returns no error and
\* one Result per listed instance, in listing order: ServiceName, Type and
\* Location of the i-th Result are those of the i-th instance, ResourceGroup
\* is the argument, SubscriptionID and SubscriptionName are the scanner's.
C2_OneResultPerInstance ==
    \A t \in DOMAIN frames :
        LET f == frames[t]
        IN  (f.pc = "done" /\ ~HasErr(PagesOf(f))) =>
                LET ret == Deref(f.ret)
                    all == Listed(f.scanner, f.rg, PagesOf(f), 1)
                IN  /\ ret.err = Nil
                    /\ ret.results # Nil
                    /\ LET res == Deref(ret.results)
                       IN  /\ Len(res) = Total(PagesOf(f), 1)
                           /\ Len(res) = Len(all)
                           /\ \A i \in 1..Len(res) :
                                  /\ Some(res[i].ServiceName) = all[i].Name
                                  /\ Some(res[i].Type) = all[i].Type
                                  /\ Some(res[i].Location) = all[i].Location
                                  /\ res[i].ResourceGroup = f.rg
                                  /\ res[i].SubscriptionID
                                         = config[f.scanner].SubscriptionID
                                  /\ res[i].SubscriptionName
                                         = config[f.scanner].SubscriptionName

\* C2 witness: pages of 3 and 2 instances give 5 Results.
C2_Witness ==
    \E t \in DOMAIN frames :
        LET f == frames[t]
        IN  /\ f.pc = "done"
            /\ f.scanner = "redis"
            /\ f.rg = "rg2"
            /\ PagesOf(f) = <<[err |-> Nil, n |-> 3], [err |-> Nil, n |-> 2]>>
            /\ Deref(f.ret).err = Nil
            /\ Len(Deref(Deref(f.ret).results)) = 5
            /\ Deref(Deref(f.ret).results)[4].ServiceName
                   = <<"redis", "rg2", "2", "1">>

RuleIds(name) == {GetRules(name)[k].Id : k \in DOMAIN GetRules(name)}

\* C4: an evaluation that returns gives one outcome per rule of the catalog,
\* keyed by the rule's id, each evaluator having been called once and each
\* outcome being what the rule's evaluator gives for the resource and the
\* context, in whatever order the rules were visited; every Result of Scan
\* carries a map whose keys are the ids of the scanner's catalog.
C4_OneOutcomePerRule ==
    /\ engine.pc \in {"run", "done", "panic"} =>
           \A k \in DOMAIN engine.calls : engine.calls[k] <= 1
    /\ engine.pc = "done" =>
           LET rules == GetRules(engine.rules)
               ret == Deref(engine.ret)
           IN  /\ DOMAIN ret = RuleIds(engine.rules)
               /\ Cardinality(DOMAIN ret) = Cardinality(DOMAIN rules)
               /\ \A k \in DOMAIN rules :
                      /\ engine.calls[k] = 1
                      /\ ~ret[rules[k].Id].panic
                      /\ ret[rules[k].Id] = CallEval(rules[k], target, scanContext)
    /\ \A t \in DOMAIN frames :
           (frames[t].pc = "done" /\ Deref(frames[t].ret).err = Nil) =>
               LET res == Deref(Deref(frames[t].ret).results)
               IN  \A i \in 1..Len(res) : DOMAIN res[i].Rules = RuleIds(wiring)

\* C4 witness: the seven rules of the SignalR catalog, evaluated.
C4_Witness ==
    /\ engine.pc = "done"
    /\ engine.rules = "sigr"
    /\ target = SigrOK
    /\ Cardinality(DOMAIN Deref(engine.ret)) = 7

\* C5: a Scan call made after a remembered one, with the same scanner and
\* resource group, returns, and returns what the remembered call returned.
C5_ScanIdempotent ==
    \A t \in DOMAIN frames :
        LET f == frames[t]
        IN  (/\ remembered # Nil
             /\ f.later
             /\ f.pc \in {"done", "panic"}
             /\ f.scanner = Deref(remembered).scanner
             /\ f.rg = Deref(remembered).rg) =>
                /\ f.pc = "done"
                /\ Deref(f.ret) = Deref(remembered).ret

\* C5 witness: a second call returns the two Results the first returned.
C5_Witness ==
    \E t \in DOMAIN frames :
        LET f == frames[t]
        IN  /\ remembered # Nil
            /\ f.later
            /\ f.pc = "done"
            /\ f.scanner = Deref(remembered).scanner
            /\ f.rg = Deref(remembered).rg
            /\ Deref(f.ret).err = Nil
            /\ Len(Deref(Deref(f.ret).results)) = 2
            /\ wiring = "has-tag"

\* a catalog whose evaluators assert a concrete type, run on another type
EngineMismatched ==
    /\ engine.pc \in {"run", "done", "panic"}
    /\ engine.rules \in CatalogNames
    /\ target.kind # Expects(engine.rules)

\* every scanner lists instances of its own type, which no wired SignalR or
\* CosmosDB catalog expects
ScanMismatched == wiring \in CatalogNames

\* the part of C7 on the engine and on Scan: the evaluation of a catalog on
\* a mismatched resource never returns a map; a Scan that meets a mismatched
\* instance never returns, neither Results nor an error
MismatchAbortsEvaluation ==
    /\ EngineMismatched => (engine.pc # "done" /\ engine.ret = Nil)
    /\ \A t \in DOMAIN frames :
           LET f == frames[t]
           IN  /\ (ScanMismatched /\ f.pc = "done" /\ ~HasErr(PagesOf(f))) =>
                      /\ f.items = <<>>
                      /\ Deref(f.ret) = [results |-> Some(<<>>), err |-> Nil]
               /\ f.pc = "panic" => f.ret = Nil

\* C7 as stated: on a mismatched resource the evaluation aborts, no map and
\* no Result is produced, the abort is not turned into a return, and no rule
\* of the catalog gives an ordinary (triggered, detail) outcome.
C7_NoRuleGivesOutcomeOnMismatch ==
    /\ MismatchAbortsEvaluation
    /\ EngineMismatched => engine.rr = <<>>
    /\ Mismatched => \A k \in DOMAIN outs : outs[k].panic

\* C7 amended: as stated, for every rule but sigr-003, whose evaluator never
\* looks at its target and gives (false, "99.9%") for any resource.
C7_MismatchAbortsButSigr003 ==
    /\ MismatchAbortsEvaluation
    /\ EngineMismatched =>
           /\ DOMAIN engine.rr \subseteq {"sigr-003"}
           /\ \A k \in DOMAIN engine.rr : engine.rr[k] = Out(FALSE, <<"99.9%">>)
    /\ Mismatched =>
           \A k \in DOMAIN outs :
               IF k = "sigr-003"
               THEN outs[k] = Out(FALSE, <<"99.9%">>)
               ELSE outs[k].panic

\* C7 witness: Scan of a scanner wired to the SignalR catalog panicked on
\* the first of three listed instances.
C7_Witness ==
    \E t \in DOMAIN frames :
        /\ wiring = "sigr"
        /\ frames[t].pc = "panic"
        /\ frames[t].evals = 1
        /\ Len(frames[t].items) = 3
        /\ frames[t].ret = Nil

(***************************************************************************)
(* SpecPar: two callers of Scan at once.  Each call runs list page by page *)
(* and then the rules; the calls interleave in any way, on the same or on  *)
(* different scanners and resource groups, and share the Scan Context, the *)
(* scanners' fields and the catalog.  The evaluators and the engine run    *)
(* on their own inputs as in Spec.                                         *)
(***************************************************************************)
ParTasks == {"t1", "t2"}

InitPar ==
    /\ \E b \in RunListings : backing = [l \in Listers |-> b]
    /\ absent \in {"none", "Name"}
    /\ wiring \in ScanCatalogs
    /\ config = [c \in Scanners |-> TheConfig]
    /\ frames = [t \in ParTasks |-> IdleFrame]
    /\ remembered = Nil
    /\ listing = {<<"S", "u", "B">>}
    /\ scanContext = Build(listing)
    /\ target = CogOK
    /\ run = [pc |-> "off"]
    /\ EvalOff
    /\ EngineOff

SpecPar == (InitEvalCore \/ InitEngine \/ InitPar) /\ [][Next]_vars

(***************************************************************************)
(* Properties of concurrent Scan calls (SpecPar).                          *)
(***************************************************************************)
\* what Scan(rg) of scanner c does when it runs alone: the error of the
\* first failing page, or the Results of the rules on every listed instance
Alone(c, rg) ==
    LET pages == backing[<<c, rg>>]
    IN  IF HasErr(pages)
        THEN [panic |-> FALSE,
              ret |-> Some([results |-> Nil,
                            err |-> pages[FirstErr(pages)].err])]
        ELSE LET end == ScanLoop(c, rg, Listed(c, rg, pages, 1), 1,
                            [panic |-> FALSE, results |-> <<>>, evals |-> 0])
             IN  IF end.panic THEN [panic |-> TRUE, ret |-> Nil]
                 ELSE [panic |-> FALSE,
                       ret |-> Some([results |-> Some(end.results),
                                     err |-> Nil])]

\* no step changes the Scan Context, the listing it was built from, the
\* scanners' fields or the catalog
ReadOnlyStep ==
    /\ scanContext' = scanContext
    /\ listing' = listing
    /\ config' = config
    /\ wiring' = wiring

\* every call holds, while it lists, the instances of its own pages so far,
\* and ends as it would alone
AsAlone ==
    \A t \in DOMAIN frames :
        LET f == frames[t]
        IN  /\ f.pc = "list" =>
                   /\ f.pos <= Len(PagesOf(f))
                   /\ f.items = Listed(f.scanner, f.rg,
                                       SubSeq(PagesOf(f), 1, f.pos), 1)
            /\ f.pc = "done" =>
                   /\ ~Alone(f.scanner, f.rg).panic
                   /\ f.ret = Alone(f.scanner, f.rg).ret
            /\ f.pc = "panic" => Alone(f.scanner, f.rg).panic

\* C11: Scan and the rule evaluators are read-only on shared state: no
\* step of a Scan call, of an evaluator or of the engine changes the Scan
\* Context's diagnostics index, a scanner's configuration or the catalog;
\* and in every interleaving of two Scan calls sharing one Scan Context, on
\* the same or on different scanners and resource groups, each call returns
\* what it returns when run alone.
C11_ReadOnlyAndIsolated == [][ReadOnlyStep]_vars /\ []AsAlone

\* C11 witness: two calls on the same scanner and resource group are in
\* flight at once, each having listed the first of two pages.
C11_Witness ==
    /\ DOMAIN frames = ParTasks
    /\ frames["t1"].pc = "list" /\ frames["t2"].pc = "list"
    /\ frames["t1"].scanner = "cog" /\ frames["t2"].scanner = "cog"
    /\ frames["t1"].rg = "rg1" /\ frames["t2"].rg = "rg1"
    /\ backing[<<"cog", "rg1">>] = <<OkPage(1), OkPage(1)>>
    /\ frames["t1"].pos = 1 /\ frames["t2"].pos = 1
    /\ Len(frames["t1"].items) = 1 /\ Len(frames["t2"].items) = 1
    /\ wiring = "has-tag"
    /\ HasKey(scanContext, <<"s", "u", "b">>)

(***************************************************************************)
(* Properties of the Orchestrator (SpecRun).                               *)
(***************************************************************************)
Failing == {p \in RunPairs : HasErr(backing[p])}

\* the Results Scan owes for pair p: one per listed instance, in order
FullResults(p, res) ==
    LET all == Listed(p[1], p[2], backing[p], 1)
    IN  /\ Len(res) = Len(all)
        /\ \A i \in 1..Len(res) :
               /\ Some(res[i].ServiceName) = all[i].Name
               /\ res[i].ResourceGroup = p[2]

\* the number of instances of the pairs whose listing succeeds
RECURSIVE Owed(_)
Owed(i) ==
    IF i > Len(RunOrder) THEN 0
    ELSE (IF RunOrder[i] \in Failing THEN 0 ELSE Total(backing[RunOrder[i]], 1))
         + Owed(i + 1)

\* C6: when the listing of exactly one pair fails, in any interleaving of
\* the tasks, a settled sibling holds its full Results, and RunScan returns
\* the full Results of every other pair, none for the failing pair, and one
\* failure entry, naming the failing pair and its error.
C6_FailureStaysLocal ==
    (run.pc \in {"running", "returned"} /\ Cardinality(Failing) = 1) =>
        /\ \A p \in RunPairs \ Failing :
               run.status[p] = "settled" =>
                   /\ run.results[p] # Nil
                   /\ FullResults(p, Deref(run.results[p]))
        /\ \A p \in Failing : run.results[p] = Nil
        /\ run.failures \subseteq
               {[scanner |-> p[1], rg |-> p[2],
                 err |-> Deref(backing[p][FirstErr(backing[p])].err)] :
                    p \in Failing}
        /\ run.pc = "returned" =>
               /\ Cardinality(run.failures) = 1
               /\ \A p \in RunPairs \ Failing : run.status[p] = "settled"
               /\ Len(run.merged) = Owed(1)

\* C6 witness: (redis, rg1) failed on its second page; RunScan returned the
\* four Results of the two other pairs and the one failure.
C6_Witness ==
    /\ run.pc = "returned"
    /\ Failing = {<<"redis", "rg1">>}
    /\ backing[<<"redis", "rg1">>] = <<OkPage(2), ErrPage("forbidden")>>
    /\ run.failures = {[scanner |-> "redis", rg |-> "rg1", err |-> "forbidden"]}
    /\ Len(run.merged) = 4
    /\ run.limit = 2

====
